---- MODULE Spec2Model ----
(***************************************************************************)
(* ULP RISC-V program: NH3 ADC threshold monitor                           *)
(* (firmware/ulp/ulp_nh3_monitor.c).                                       *)
(*                                                                         *)
(* main() is modelled statement by statement (one action per volatile      *)
(* access or library call), because the six shared words live in           *)
(* RTC_SLOW_MEM and the main CPU may write threshold, confirm count and    *)
(* stop flag between any two statements of the ULP program.                *)
(*                                                                         *)
(* The two uint32_t counters (ulp_nh3_above_count, ulp_cycle_count) keep   *)
(* their modular arithmetic with a word of CounterBits bits instead of 32. *)
(* ADC samples are 12-bit values and are kept as they are.                 *)
(***************************************************************************)
EXTENDS Integers, Sequences, FiniteSets

\* ---- bounds ------------------------------------------------------------
\* width of the counters' word (stands for the 32 bits of uint32_t)
CounterBits == 2
\* a second threshold the host may program besides the initial one
HostThreshold == 2000

\* ---- program constants -------------------------------------------------
InitThreshold == 1500
InitConfirm == 3
SAMPLE_INTERVAL_US == 200 * 1000

CounterMod == 2 ^ CounterBits

\* values ulp_riscv_adc_read_channel may return: negative on failure,
\* otherwise the sample
RawValues == {-1, 0, InitThreshold, HostThreshold}
\* values the host writes
ThresholdValues == {InitThreshold, HostThreshold}
ConfirmValues == {0, 1, InitConfirm}
StopValues == {0, 1}

\* number of past comparison outcomes kept in hist
HistLen == InitConfirm

VARIABLES
    ulp_nh3_threshold_adc,  \* shared, host-written
    ulp_nh3_last_reading,   \* shared, ULP-written
    ulp_nh3_above_count,    \* shared, ULP-written
    ulp_nh3_confirm_count,  \* shared, host-written
    ulp_cycle_count,        \* shared, ULP-written
    ulp_stop_flag,          \* shared, host-written
    pc,                     \* position of main()
    raw,                    \* local: int32_t raw
    thr,                    \* register: threshold loaded at the comparison
    cc,                     \* register: confirm count loaded at the comparison
    wakeups,                \* calls of ulp_riscv_wakeup_main_processor so far
    sampled,                \* an ADC read has been made in this run
    delay_us,               \* microseconds delayed since the last ADC read
    hist,                   \* outcomes of the last HistLen threshold comparisons
    last_sample,            \* most recent value a successful ADC read returned (-1: none)
    failed_in_streak        \* a read has failed since the current run of
                            \* at-or-above comparisons began

ulpvars == <<ulp_nh3_last_reading, ulp_nh3_above_count, ulp_cycle_count>>
hostvars == <<ulp_nh3_threshold_adc, ulp_nh3_confirm_count, ulp_stop_flag>>
locals == <<raw, thr, cc>>
ghosts == <<wakeups, sampled, delay_us, hist, last_sample, failed_in_streak>>
vars == <<ulp_nh3_threshold_adc, ulp_nh3_last_reading, ulp_nh3_above_count,
          ulp_nh3_confirm_count, ulp_cycle_count, ulp_stop_flag,
          pc, raw, thr, cc, wakeups, sampled, delay_us, hist,
          last_sample, failed_in_streak>>

\* (uint32_t)raw of an int32_t
Uint32OfInt32(x) == IF x >= 0 THEN x ELSE ((x + 2147483647) + 2147483647) + 2

\* x++ on a counter word
Incr(x) == (x + 1) % CounterMod

\* the most recent comparison found its reading at or above the threshold
InStreak(h) == Len(h) > 0 /\ h[Len(h)]

\* keep the last HistLen outcomes
Remember(h, b) ==
    LET s == Append(h, b)
    IN  IF Len(s) > HistLen THEN Tail(s) ELSE s

Init ==
    /\ ulp_nh3_threshold_adc = InitThreshold
    /\ ulp_nh3_last_reading = 0
    /\ ulp_nh3_above_count = 0
    /\ ulp_nh3_confirm_count = InitConfirm
    /\ ulp_cycle_count = 0
    /\ ulp_stop_flag = 0
    /\ pc = "head"
    /\ raw = 0
    /\ thr = 0
    /\ cc = 0
    /\ wakeups = 0
    /\ sampled = FALSE
    /\ delay_us = 0
    /\ hist = <<>>
    /\ last_sample = -1
    /\ failed_in_streak = FALSE

\* LoopHead that does not test the stop flag
LoopHead_NoStop ==
    /\ pc = "head"
    /\ pc' = "read"
    /\ UNCHANGED <<ulpvars, hostvars, locals, ghosts>>

\* line 31: while (!ulp_stop_flag)
LoopHead ==
    /\ pc = "head"
    /\ pc' = IF ulp_stop_flag = 0 THEN "read" ELSE "exit"
    /\ UNCHANGED <<ulpvars, hostvars, locals, ghosts>>

\* lines 32-33: raw = ulp_riscv_adc_read_channel(...); if (raw < 0)
AdcRead ==
    /\ pc = "read"
    /\ \E r \in RawValues :
          /\ raw' = r
          /\ pc' = IF r < 0 THEN "retry" ELSE "store"
          /\ last_sample' = IF r < 0 THEN last_sample ELSE r
          /\ failed_in_streak' = (failed_in_streak \/ (r < 0 /\ InStreak(hist)))
    /\ sampled' = TRUE
    /\ delay_us' = 0
    /\ UNCHANGED <<ulpvars, hostvars, thr, cc, wakeups, hist>>

\* RetryDelay that treats the failed read as a reading below the threshold
RetryDelay_Reset ==
    /\ pc = "retry"
    /\ delay_us' = delay_us + SAMPLE_INTERVAL_US
    /\ ulp_nh3_above_count' = 0
    /\ pc' = "head"
    /\ UNCHANGED <<ulp_nh3_last_reading, ulp_cycle_count, hostvars, locals,
                   wakeups, sampled, hist, last_sample, failed_in_streak>>

\* lines 34-35: ulp_riscv_delay_cycles(...); continue;
RetryDelay ==
    /\ pc = "retry"
    /\ delay_us' = delay_us + SAMPLE_INTERVAL_US
    /\ pc' = "head"
    /\ UNCHANGED <<ulpvars, hostvars, locals, wakeups, sampled, hist,
                   last_sample, failed_in_streak>>

\* StoreReading with the assignment left out
StoreReading_Skip ==
    /\ pc = "store"
    /\ pc' = "count"
    /\ UNCHANGED <<ulpvars, hostvars, locals, ghosts>>

\* line 38: ulp_nh3_last_reading = (uint32_t)raw;
StoreReading ==
    /\ pc = "store"
    /\ ulp_nh3_last_reading' = Uint32OfInt32(raw)
    /\ pc' = "count"
    /\ UNCHANGED <<ulp_nh3_above_count, ulp_cycle_count, hostvars, locals, ghosts>>

\* line 39: ulp_cycle_count++;
CountCycle ==
    /\ pc = "count"
    /\ ulp_cycle_count' = Incr(ulp_cycle_count)
    /\ pc' = "compare"
    /\ UNCHANGED <<ulp_nh3_last_reading, ulp_nh3_above_count, hostvars, locals, ghosts>>

\* CompareThreshold with > in place of >=
CompareThreshold_Strict ==
    /\ pc = "compare"
    /\ thr' = ulp_nh3_threshold_adc
    /\ pc' = IF Uint32OfInt32(raw) > ulp_nh3_threshold_adc THEN "above" ELSE "below"
    /\ hist' = Remember(hist, Uint32OfInt32(raw) > ulp_nh3_threshold_adc)
    /\ failed_in_streak' =
          (failed_in_streak /\ Uint32OfInt32(raw) > ulp_nh3_threshold_adc)
    /\ UNCHANGED <<ulpvars, hostvars, raw, cc, wakeups, sampled, delay_us, last_sample>>

\* line 41: if ((uint32_t)raw >= ulp_nh3_threshold_adc)
CompareThreshold ==
    /\ pc = "compare"
    /\ thr' = ulp_nh3_threshold_adc
    /\ pc' = IF Uint32OfInt32(raw) >= ulp_nh3_threshold_adc THEN "above" ELSE "below"
    /\ hist' = Remember(hist, Uint32OfInt32(raw) >= ulp_nh3_threshold_adc)
    /\ failed_in_streak' =
          (failed_in_streak /\ Uint32OfInt32(raw) >= ulp_nh3_threshold_adc)
    /\ UNCHANGED <<ulpvars, hostvars, raw, cc, wakeups, sampled, delay_us, last_sample>>

\* line 42: ulp_nh3_above_count++;
IncrementAbove ==
    /\ pc = "above"
    /\ ulp_nh3_above_count' = Incr(ulp_nh3_above_count)
    /\ pc' = "confirm"
    /\ UNCHANGED <<ulp_nh3_last_reading, ulp_cycle_count, hostvars, locals, ghosts>>

\* CompareConfirm with > in place of >=
CompareConfirm_Strict ==
    /\ pc = "confirm"
    /\ cc' = ulp_nh3_confirm_count
    /\ pc' = IF ulp_nh3_above_count > ulp_nh3_confirm_count THEN "wake" ELSE "delay"
    /\ UNCHANGED <<ulpvars, hostvars, raw, thr, ghosts>>

\* line 43: if (ulp_nh3_above_count >= ulp_nh3_confirm_count)
CompareConfirm ==
    /\ pc = "confirm"
    /\ cc' = ulp_nh3_confirm_count
    /\ pc' = IF ulp_nh3_above_count >= ulp_nh3_confirm_count THEN "wake" ELSE "delay"
    /\ UNCHANGED <<ulpvars, hostvars, raw, thr, ghosts>>

\* line 44: ulp_riscv_wakeup_main_processor();
Wakeup ==
    /\ pc = "wake"
    /\ wakeups' = wakeups + 1
    /\ pc' = "halt"
    /\ UNCHANGED <<ulpvars, hostvars, locals, sampled, delay_us, hist,
                   last_sample, failed_in_streak>>

\* HaltAfterWake that returns to the caller, which falls through to line 51
HaltAfterWake_Returns ==
    /\ pc = "halt"
    /\ pc' = "delay"
    /\ UNCHANGED <<ulpvars, hostvars, locals, ghosts>>

\* line 45: ulp_riscv_halt();  (does not return: the core is shut down)
HaltAfterWake ==
    /\ pc = "halt"
    /\ pc' = "halted"
    /\ UNCHANGED <<ulpvars, hostvars, locals, ghosts>>

\* ResetAbove with the confirm comparison placed after the if/else instead
\* of inside the at-or-above branch
ResetAbove_ThenConfirm ==
    /\ pc = "below"
    /\ ulp_nh3_above_count' = 0
    /\ pc' = "confirm"
    /\ UNCHANGED <<ulp_nh3_last_reading, ulp_cycle_count, hostvars, locals, ghosts>>

\* ResetAbove without the assignment
ResetAbove_Keep ==
    /\ pc = "below"
    /\ pc' = "delay"
    /\ UNCHANGED <<ulpvars, hostvars, locals, ghosts>>

\* line 48: ulp_nh3_above_count = 0;
ResetAbove ==
    /\ pc = "below"
    /\ ulp_nh3_above_count' = 0
    /\ pc' = "delay"
    /\ UNCHANGED <<ulp_nh3_last_reading, ulp_cycle_count, hostvars, locals, ghosts>>

\* SampleDelay left out: the loop goes straight back to its head
SampleDelay_Skip ==
    /\ pc = "delay"
    /\ pc' = "head"
    /\ UNCHANGED <<ulpvars, hostvars, locals, ghosts>>

\* line 51: ulp_riscv_delay_cycles(SAMPLE_INTERVAL_US * ULP_RISCV_CYCLES_PER_US);
SampleDelay ==
    /\ pc = "delay"
    /\ delay_us' = delay_us + SAMPLE_INTERVAL_US
    /\ pc' = "head"
    /\ UNCHANGED <<ulpvars, hostvars, locals, wakeups, sampled, hist,
                   last_sample, failed_in_streak>>

\* HaltAfterStop that acknowledges the stop request by clearing the flag
HaltAfterStop_Ack ==
    /\ pc = "exit"
    /\ ulp_stop_flag' = 0
    /\ pc' = "halted"
    /\ UNCHANGED <<ulpvars, ulp_nh3_threshold_adc, ulp_nh3_confirm_count,
                   locals, ghosts>>

\* line 54: ulp_riscv_halt(); after the loop
HaltAfterStop ==
    /\ pc = "exit"
    /\ pc' = "halted"
    /\ UNCHANGED <<ulpvars, hostvars, locals, ghosts>>

\* one statement of main()
Main ==
    \/ LoopHead
    \/ AdcRead
    \/ RetryDelay
    \/ StoreReading
    \/ CountCycle
    \/ CompareThreshold
    \/ IncrementAbove
    \/ CompareConfirm
    \/ Wakeup
    \/ HaltAfterWake
    \/ ResetAbove
    \/ SampleDelay
    \/ HaltAfterStop

\* the main CPU writes the threshold
HostWriteThreshold ==
    /\ \E v \in ThresholdValues :
          /\ v # ulp_nh3_threshold_adc
          /\ ulp_nh3_threshold_adc' = v
    /\ UNCHANGED <<ulp_nh3_confirm_count, ulp_stop_flag, ulpvars, pc, locals, ghosts>>

\* the main CPU writes the confirm count
HostWriteConfirm ==
    /\ \E v \in ConfirmValues :
          /\ v # ulp_nh3_confirm_count
          /\ ulp_nh3_confirm_count' = v
    /\ UNCHANGED <<ulp_nh3_threshold_adc, ulp_stop_flag, ulpvars, pc, locals, ghosts>>

\* the main CPU writes the stop flag
HostWriteStop ==
    /\ \E v \in StopValues :
          /\ v # ulp_stop_flag
          /\ ulp_stop_flag' = v
    /\ UNCHANGED <<ulp_nh3_threshold_adc, ulp_nh3_confirm_count, ulpvars, pc, locals, ghosts>>

Host ==
    \/ HostWriteThreshold
    \/ HostWriteConfirm
    \/ HostWriteStop

Next ==
    \/ Main
    \/ Host

Spec == Init /\ [][Next]_vars

\* the ULP core keeps executing: every statement of main() returns
FairSpec == Spec /\ WF_vars(Main)

\* the main CPU programs the confirm count before main() has executed its
\* first statement, and leaves it alone afterwards
ProgramConfirm ==
    /\ pc = "head"
    /\ ~sampled
    /\ HostWriteConfirm

FixedConfirmNext ==
    \/ Main
    \/ HostWriteThreshold
    \/ HostWriteStop
    \/ ProgramConfirm

\* runs in which the host does not change the confirm count while main() runs
FixedConfirmSpec == Init /\ [][FixedConfirmNext]_vars

TypeOK ==
    /\ ulp_nh3_threshold_adc \in ThresholdValues
    /\ ulp_nh3_last_reading \in 0..4095
    /\ ulp_nh3_above_count \in 0..(CounterMod - 1)
    /\ ulp_nh3_confirm_count \in ConfirmValues
    /\ ulp_cycle_count \in 0..(CounterMod - 1)
    /\ ulp_stop_flag \in StopValues
    /\ raw \in RawValues
    /\ wakeups \in 0..1

\* ---- properties -------------------------------------------------------

\* the most recent c compared readings were all at or above the threshold
\* they were compared with
AllAbove(c) ==
    /\ c <= Len(hist)
    /\ \A i \in (Len(hist) - c + 1)..Len(hist) : hist[i]

\* the current iteration read a sample and found it below the threshold
BelowIteration == pc \in {"below", "delay"} /\ Uint32OfInt32(raw) < thr

\* the current iteration found its sample at or above the threshold and
\* did not reach the confirm count
AboveIteration == pc = "delay" /\ Uint32OfInt32(raw) >= thr

\* C1 as stated: the wake is called exactly when the most recent
\* confirm_count readings were all >= threshold: it is called only then,
\* and an iteration that does not call it (confirm count not reached, or
\* reading below the threshold) has not seen confirm_count such readings.
C1_WakeIffConfirmed ==
    /\ pc = "wake" => AllAbove(cc)
    /\ AboveIteration => ~AllAbove(cc)
    /\ pc = "below" => ~AllAbove(ulp_nh3_confirm_count)

\* C1 amended: the wake is called exactly when the iteration's reading is
\* >= threshold and the most recent confirm_count readings (confirm count
\* as read in that iteration) were all >= threshold; an iteration whose
\* reading is below the threshold never calls it, and has not seen c such
\* readings for any c >= 1.  With a confirm count of 0 the wake is called
\* at the first reading >= threshold, not at a reading below it.  No other
\* statement of main() calls the wake.
C1_WakeIffConfirmedNonZero ==
    /\ pc = "wake" => Uint32OfInt32(raw) >= thr /\ AllAbove(cc)
    /\ AboveIteration => ~AllAbove(cc)
    /\ BelowIteration =>
          /\ wakeups = 0
          /\ \A c \in ConfirmValues \ {0} : ~AllAbove(c)
    /\ wakeups >= 1 => pc \in {"halt", "halted"} /\ AllAbove(cc)

C1_Witness ==
    /\ pc = "wake"
    /\ cc = InitConfirm
    /\ AllAbove(InitConfirm)
    /\ ulp_nh3_confirm_count = InitConfirm

\* C2: immediately after a successful reading below the threshold the
\* consecutive-above count is zero.
C2_ResetOnBelow ==
    (pc = "delay" /\ Uint32OfInt32(raw) < thr) => ulp_nh3_above_count = 0

\* a below-threshold reading right after one at or above it: the count was
\* not zero before
C2_Witness ==
    /\ pc = "delay"
    /\ Uint32OfInt32(raw) < thr
    /\ Len(hist) >= 2
    /\ hist[Len(hist) - 1]
    /\ ulp_nh3_above_count = 0

\* C3: the cycle count rises by exactly 1 in the statement that follows a
\* successful read, and no other step changes it.
C3_CycleCountPlusOne ==
    [][ /\ (pc = "count" /\ pc' # pc) => ulp_cycle_count' = ulp_cycle_count + 1
        /\ ~(pc = "count" /\ pc' # pc) => ulp_cycle_count' = ulp_cycle_count ]_vars

\* C4: the consecutive-above count rises only in an iteration whose reading
\* is at or above the threshold (equal counts as above), and then by
\* exactly 1.
C4_IncrementOnlyAbove ==
    [][ /\ ulp_nh3_above_count' > ulp_nh3_above_count =>
              /\ pc = "above"
              /\ Uint32OfInt32(raw) >= thr
              /\ ulp_nh3_above_count' = ulp_nh3_above_count + 1
        /\ (pc = "compare" /\ pc' # pc) =>
              ((pc' = "above") <=> (Uint32OfInt32(raw) >= thr'))
        /\ (pc = "above" /\ pc' # pc) =>
              ulp_nh3_above_count' = ulp_nh3_above_count + 1 ]_vars

\* a reading equal to the threshold has been counted, on top of an earlier one
C4_Witness ==
    /\ pc = "confirm"
    /\ Uint32OfInt32(raw) = thr
    /\ ulp_nh3_above_count = 2

\* C5: once the wake has been signalled the program is at its halt: no
\* statement of the loop runs again, no ULP-owned shared variable changes,
\* no ADC read is made, and the wake is signalled at most once.
C5_WakeThenHalt ==
    /\ [](wakeups <= 1)
    /\ [](wakeups >= 1 => pc \in {"halt", "halted"})
    /\ [][wakeups >= 1 =>
            /\ UNCHANGED <<ulpvars, sampled, delay_us, raw>>
            /\ wakeups' = wakeups
            /\ pc' \in {"halt", "halted"}]_vars

C5_Witness ==
    /\ wakeups = 1
    /\ pc = "halted"
    /\ ulp_stop_flag = 0

\* C6: an ADC read is started only from the loop head with the stop flag
\* read as zero, and if the stop flag is eventually set for good the
\* program eventually halts.
C6_RunsUntilStop ==
    /\ [][(pc' = "read" /\ pc # "read") => (pc = "head" /\ ulp_stop_flag = 0)]_vars
    /\ (<>[](ulp_stop_flag # 0) => <>(pc = "halted"))

\* halted because of the stop flag, after having sampled
C6_Witness ==
    /\ pc = "halted"
    /\ ulp_stop_flag # 0
    /\ wakeups = 0
    /\ sampled

\* C7: an iteration whose read fails delays one sample interval and goes
\* back to the loop head; it changes none of last reading, above count and
\* cycle count, signals no wake and does not halt.
C7_FailedReadRetries ==
    [][ /\ (pc = "read" /\ pc' # pc /\ raw' < 0) =>
              /\ pc' = "retry"
              /\ UNCHANGED <<ulpvars, wakeups>>
        /\ (pc = "retry" /\ pc' # pc) =>
              /\ pc' = "head"
              /\ delay_us' = SAMPLE_INTERVAL_US
              /\ UNCHANGED <<ulpvars, wakeups>> ]_vars

\* back at the loop head after a failed read, with a streak still standing
C7_Witness ==
    /\ pc = "head"
    /\ raw < 0
    /\ delay_us = SAMPLE_INTERVAL_US
    /\ ulp_nh3_above_count = 2
    /\ ulp_cycle_count = 2
    /\ ulp_nh3_last_reading # 0

\* C8: a step of main() leaves threshold, confirm count and stop flag
\* unchanged, and a host write leaves last reading, above count and cycle
\* count unchanged: no shared variable has two writers.
C8_SingleWriter ==
    [][ /\ pc' # pc => UNCHANGED hostvars
        /\ hostvars' # hostvars => UNCHANGED <<ulpvars, pc>> ]_vars

\* both sides have written each of their variables
C8_Witness ==
    /\ ulp_nh3_last_reading # 0
    /\ ulp_nh3_above_count # 0
    /\ ulp_cycle_count # 0
    /\ ulp_nh3_threshold_adc # InitThreshold
    /\ ulp_nh3_confirm_count # InitConfirm
    /\ ulp_stop_flag # 0
    /\ pc = "halted"

\* C9: whenever an ADC read is about to be made after an earlier one, the
\* program has delayed exactly one SAMPLE_INTERVAL_US since that earlier
\* read, whatever its outcome.
C9_OneDelayBetweenReads ==
    (pc = "read" /\ sampled) => delay_us = SAMPLE_INTERVAL_US

\* about to read again after a reading at or above the threshold that did
\* not reach the confirm count
C9_Witness ==
    /\ pc = "read"
    /\ sampled
    /\ raw >= 0
    /\ Uint32OfInt32(raw) >= thr
    /\ ulp_nh3_above_count >= 1
    /\ delay_us = SAMPLE_INTERVAL_US

\* C10: the cycle count never decreases.
C10_CycleCountMonotonic ==
    [][ulp_cycle_count' >= ulp_cycle_count]_vars

\* C11: with a confirm count >= 1 that the host does not change while
\* main() runs, the consecutive-above count is strictly below the confirm
\* count each time the loop head tests the stop flag.
C11_BelowConfirmAtHead ==
    (pc = "head" /\ ulp_nh3_confirm_count >= 1) =>
        ulp_nh3_above_count < ulp_nh3_confirm_count

\* at the loop head one reading short of the confirm count
C11_Witness ==
    /\ pc = "head"
    /\ sampled
    /\ ulp_nh3_confirm_count = InitConfirm
    /\ ulp_nh3_above_count = InitConfirm - 1

\* C12: the wake is signalled only in an iteration whose own successful
\* reading is at or above the threshold loaded in that iteration, whatever
\* the confirm count (0 included) and whatever the host writes: the only
\* way to the wake call is the confirm comparison of such an iteration, and
\* a host write neither signals the wake nor moves main().
C12_WakeOnlyInAboveIteration ==
    /\ [](pc = "wake" => raw >= 0 /\ Uint32OfInt32(raw) >= thr /\ InStreak(hist))
    /\ [][wakeups' # wakeups =>
            pc = "wake" /\ raw >= 0 /\ Uint32OfInt32(raw) >= thr]_vars
    /\ [][(pc' = "wake" /\ pc # "wake") => pc = "confirm"]_vars
    /\ [][hostvars' # hostvars => (wakeups' = wakeups /\ pc' = pc)]_vars

\* a read has failed while the host-lowered confirm count is already
\* covered by the consecutive-above count, and no wake has been signalled
C12_Witness ==
    /\ pc = "retry"
    /\ ulp_nh3_above_count >= 1
    /\ ulp_nh3_confirm_count = 0
    /\ wakeups = 0

\* number of most recent compared readings in a row that were at or above
\* the threshold; failed reads are not compared and do not appear in hist
Streak(h) == Cardinality({k \in 1..Len(h) : \A i \in k..Len(h) : h[i]})

\* C13: failed reads do not break a streak: outside the two statements
\* that update it, the consecutive-above count is the number of successful
\* readings at or above the threshold since the last reading below it,
\* however many reads failed in between; the steps of a failed iteration
\* leave it unchanged; and the wake is called as soon as that number
\* reaches the confirm count.
C13_FailedReadKeepsStreak ==
    /\ [](pc \notin {"above", "below"} => ulp_nh3_above_count = Streak(hist))
    /\ [][((pc = "read" /\ raw' < 0 /\ pc' # pc) \/ (pc = "retry" /\ pc' # pc)) =>
            (ulp_nh3_above_count' = ulp_nh3_above_count /\ hist' = hist)]_vars
    /\ [](pc = "wake" => Streak(hist) >= cc)
    /\ [](AboveIteration => Streak(hist) < cc)

\* the wake is reached after InitConfirm readings at or above the threshold
\* with a failed read among them
C13_Witness ==
    /\ pc = "wake"
    /\ failed_in_streak
    /\ cc = InitConfirm
    /\ Streak(hist) = InitConfirm
    /\ ulp_nh3_above_count = InitConfirm

\* C14: from the statement after the store until the next successful read
\* (so at the threshold comparison, at every later loop head and at the
\* wake) last reading equals the most recent successfully read ADC value,
\* and at the wake that value is the one compared and is >= the threshold
\* it was compared with.
C14_LastReadingIsSample ==
    /\ (pc # "store" /\ last_sample >= 0) =>
          ulp_nh3_last_reading = Uint32OfInt32(last_sample)
    /\ pc \in {"compare", "wake"} =>
          (raw = last_sample /\ ulp_nh3_last_reading = Uint32OfInt32(raw))
    /\ pc = "wake" => ulp_nh3_last_reading >= thr

\* a wake on a sample equal to the threshold the host programmed
C14_Witness ==
    /\ pc = "wake"
    /\ last_sample = HostThreshold
    /\ ulp_nh3_last_reading = HostThreshold
    /\ thr = HostThreshold

\* C15: if the stop flag stays clear, the host eventually leaves threshold
\* and confirm count unchanged, and from some point on no ADC read fails
\* and every sample is at or above the threshold it is compared with, then
\* the wake is eventually signalled and the program halts.
C15_SustainedExceedanceWakes ==
    ( /\ [](ulp_stop_flag = 0)
      /\ <>[][UNCHANGED <<ulp_nh3_threshold_adc, ulp_nh3_confirm_count>>]_vars
      /\ <>[](pc # "retry")
      /\ <>[](pc = "compare" => Uint32OfInt32(raw) >= ulp_nh3_threshold_adc) )
    => <>(wakeups = 1 /\ pc = "halted")

\* halted after the wake, with the initial threshold and confirm count and
\* InitConfirm readings in a row at or above the threshold, none failed
C15_Witness ==
    /\ wakeups = 1
    /\ pc = "halted"
    /\ ulp_stop_flag = 0
    /\ ulp_nh3_threshold_adc = InitThreshold
    /\ ulp_nh3_confirm_count = InitConfirm
    /\ Streak(hist) = InitConfirm
    /\ ~failed_in_streak
====
